---- MODULE Spec2Model ----
(***************************************************************************)
(* Risk scoring and workflow triggers of the EHS system (src/app.py).      *)
(*                                                                         *)
(* Numbers.  A risk score is a Python float.  The model keeps a float as   *)
(* the pair [n, err]: n is the decimal value in thousandths that exact     *)
(* arithmetic would give and err is the distance of the binary64 value     *)
(* from it, counted in units of 1/(1000 * 2^FracBits).  Every binary64     *)
(* operation of the source is the exact operation followed by              *)
(* RoundToDouble (round to nearest, ties to even), so err is the true      *)
(* accumulated error, not an estimate.  A score rounded by round(x, 1) is  *)
(* an integer number of tenths.                                            *)
(***************************************************************************)
EXTENDS Integers, Sequences, FiniteSets, TLC

VARIABLES
    pc,               \* position of the engine call
    severity_scores,  \* argument of calculate_total_risk_score
    likelihood,       \* argument of calculate_total_risk_score
    risk_score,       \* tenths; argument of determine_priority
    priority,         \* result of determine_priority
    incidents,        \* table incidents, rows in insertion order
    capa_actions,     \* table capa_actions
    safety_concerns,  \* table safety_concerns
    notifications,    \* rows written by create_notification
    response,         \* the JSON body of the last response
    message,          \* argument of classify_enhanced_intent
    intent,           \* result of classify_enhanced_intent
    confidence,       \* result of calculate_intent_confidence
    hazard_description, \* description argument of suggest_corrective_action
    root_causes,      \* five_whys argument of suggest_corrective_action
    suggestion,       \* result of suggest_corrective_action
    severity_scale,   \* self.severity_scale: category -> tier scores
    likelihood_scale, \* self.likelihood_scale: tier scores
    injured_persons,  \* table injured_persons
    witnesses,        \* table witnesses
    chat_history,     \* table chat_history
    requests,         \* the requests being served: id -> position and body
    transaction,      \* the uncommitted rows of each request's connection
    db_lock           \* the request holding the database write lock, or 0

engine_vars == <<pc, severity_scores, likelihood, risk_score, priority>>

db_vars == <<incidents, capa_actions, safety_concerns, notifications, response,
             injured_persons, witnesses, chat_history>>

text_vars == <<message, intent, confidence, hazard_description, root_causes, suggestion>>

scale_vars == <<severity_scale, likelihood_scale>>

thread_vars == <<requests, transaction, db_lock>>

vars == <<pc, severity_scores, likelihood, risk_score, priority,
          incidents, capa_actions, safety_concerns, notifications, response,
          message, intent, confidence, hazard_description, root_causes, suggestion,
          severity_scale, likelihood_scale, injured_persons, witnesses,
          chat_history, requests, transaction, db_lock>>

\* ------------------------------------------------------------------ bounds
MaxSeverity == 2
MaxLikelihood == 10
MaxScore == 1100
MaxRecords == 2
MaxWords == 2
MaxRequests == 2

\* --------------------------------------------------------- binary64 floats
FracBits == 59

Exponents == -7 .. 11

RECURSIVE Pow2(_)
Pow2(k) == IF k = 0 THEN 1 ELSE 2 * Pow2(k - 1)

RECURSIVE PowMod2(_, _)
PowMod2(k, m) == IF k = 0 THEN 1 % m ELSE (2 * PowMod2(k - 1, m)) % m

\* 2^e <= (n / (1000 * d)) + err * unit, for the tiny err of a float
AtLeastPow2(n, err, d, e) ==
    LET l == IF e >= 0 THEN n ELSE n * Pow2(-e)
        r == IF e >= 0 THEN 1000 * d * Pow2(e) ELSE 1000 * d
    IN  l > r \/ (l = r /\ err >= 0)

\* the binary exponent of the exact value
Binade(n, err, d) ==
    CHOOSE e \in Exponents :
        AtLeastPow2(n, err, d, e) /\ ~AtLeastPow2(n, err, d, e + 1)

\* The binary64 nearest to (n/1000 + err*unit) / d, ties to even.
RoundToDouble(n, err, d) ==
    IF n = 0 /\ err = 0 THEN [n |-> 0, err |-> 0]
    ELSE
    LET e    == Binade(n, err, d)
        j    == FracBits + e - 52
        G    == 1000 * Pow2(j)              \* one ulp, in units
        M    == d * G
        c2   == 2 * 1000 * d
        r0   == ((n % c2) * PowMod2(FracBits - j, c2)) % c2
        rem2 == (Pow2(j) * r0 + err) % (2 * M)
        odd  == rem2 >= M
        rem  == IF odd THEN rem2 - M ELSE rem2
        up   == 2 * rem > M \/ (2 * rem = M /\ odd)
    IN  [n |-> n \div d, err |-> ((err - rem) \div d) + (IF up THEN G ELSE 0)]

\* a decimal literal of the source, given in thousandths
Literal(thousandths) == RoundToDouble(thousandths, 0, 1)

\* int * float
FloatMul(k, x) == RoundToDouble(k * x.n, k * x.err, 1)

\* float + float
FloatAdd(x, y) == RoundToDouble(x.n + y.n, x.err + y.err, 1)

\* float / 10
\* the product returned without the division by 10
FloatDiv10_undivided(x) == x

FloatDiv10(x) == RoundToDouble(x.n, x.err, 10)

\* round(x, 1) replaced by truncation to one decimal
Round1_truncating(x) == x.n \div 100

\* round(x, 1): the correctly rounded one-decimal value of the binary64 x,
\* in tenths; an exact half goes to the even tenth.
Round1(x) ==
    LET t == x.n \div 100
        r == x.n % 100
    IN  IF r > 50 \/ (r = 50 /\ (x.err > 0 \/ (x.err = 0 /\ t % 2 = 1)))
        THEN t + 1 ELSE t

\* ----------------------------------------------------------- risk scoring
Categories == <<"people", "environment", "cost", "reputation", "legal">>

CategorySet == {"people", "environment", "cost", "reputation", "legal"}

\* the scale tables with the top tier of the legal scale left out
load_scoring_data_legal_without_top_tier ==
    [likelihood_scale |-> <<0, 2, 4, 6, 8, 10>>,
     severity_scale |->
        [c \in CategorySet |->
            IF c = "legal" THEN <<0, 2, 4, 6, 8>> ELSE <<0, 2, 4, 6, 8, 10>>]]

\* self.likelihood_scale and self.severity_scale as load_scoring_data
\* assigns them: the keys of each dict, in the order written
load_scoring_data ==
    [likelihood_scale |-> <<0, 2, 4, 6, 8, 10>>,
     severity_scale |-> [c \in CategorySet |-> <<0, 2, 4, 6, 8, 10>>]]

\* the state __init__ leaves the scale tables in
ScalesLoaded ==
    /\ severity_scale = load_scoring_data.severity_scale
    /\ likelihood_scale = load_scoring_data.likelihood_scale

\* the weights of people and legal exchanged
weights_people_legal_swapped ==
    [people |-> Literal(150), environment |-> Literal(200),
     cost |-> Literal(200), reputation |-> Literal(150),
     legal |-> Literal(300)]

\* the weights dictionary, literals in thousandths
weights ==
    [people |-> Literal(300), environment |-> Literal(200),
     cost |-> Literal(200), reputation |-> Literal(150),
     legal |-> Literal(150)]

\* sum(...) of the generator, left to right from 0
RECURSIVE SumTerms(_, _, _)
SumTerms(sev, w, i) ==
    IF i = 0 THEN [n |-> 0, err |-> 0]
    ELSE FloatAdd(SumTerms(sev, w, i - 1),
                  FloatMul(sev[Categories[i]], w[Categories[i]]))

weighted_severity(sev) == SumTerms(sev, weights, Len(Categories))

\* (weighted_severity * likelihood) / 10, before the final round
raw_risk_score(sev, lik) == FloatDiv10(FloatMul(lik, weighted_severity(sev)))

calculate_total_risk_score(sev, lik) == Round1(raw_risk_score(sev, lik))

\* determine_priority with exclusive lower bounds
determine_priority_exclusive(s) ==
    IF s > 750 THEN "critical"
    ELSE IF s > 500 THEN "high"
    ELSE IF s > 250 THEN "medium"
    ELSE "low"

\* the priority with the medium and high bands exchanged
determine_priority_medium_high_swapped(s) ==
    IF s >= 750 THEN "critical"
    ELSE IF s >= 500 THEN "medium"
    ELSE IF s >= 250 THEN "high"
    ELSE "low"

\* risk_score in tenths
determine_priority(s) ==
    IF s >= 750 THEN "critical"
    ELSE IF s >= 500 THEN "high"
    ELSE IF s >= 250 THEN "medium"
    ELSE "low"

\* ------------------------------------------------- engine calls (SpecScore)
NoValue == "none"

Sev(p, e, c, r, l) ==
    [people |-> p, environment |-> e, cost |-> c, reputation |-> r, legal |-> l]

ScenarioA == [severity |-> Sev(8, 4, 2, 0, 0), likelihood |-> 8]

GridInputs ==
    { [severity |-> s, likelihood |-> k] :
        s \in [CategorySet -> 0 .. MaxSeverity], k \in 0 .. MaxLikelihood }

ScoreInputs == GridInputs \cup {ScenarioA}

\* a call of calculate_total_risk_score(severity_scores, likelihood)
InitScoreCall ==
    /\ pc = "call"
    /\ \E i \in ScoreInputs :
        severity_scores = i.severity /\ likelihood = i.likelihood
    /\ risk_score = NoValue
    /\ priority = NoValue

\* a call of determine_priority(risk_score) with any score
InitPriorityCall ==
    /\ pc = "priority_call"
    /\ severity_scores = NoValue
    /\ likelihood = NoValue
    /\ risk_score \in (-MaxScore) .. MaxScore
    /\ priority = NoValue

EmptyDb ==
    /\ incidents = <<>>
    /\ capa_actions = <<>>
    /\ safety_concerns = <<>>
    /\ notifications = <<>>
    /\ response = [success |-> FALSE, error |-> "none"]
    /\ injured_persons = <<>>
    /\ witnesses = <<>>
    /\ chat_history = <<>>

\* no request being served
NoRequests ==
    /\ requests = <<>>
    /\ transaction = <<>>
    /\ db_lock = 0

\* no text call in progress
EmptyText ==
    /\ message = NoValue
    /\ intent = NoValue
    /\ confidence = NoValue
    /\ hazard_description = NoValue
    /\ root_causes = NoValue
    /\ suggestion = NoValue

InitScore ==
    /\ InitScoreCall \/ InitPriorityCall
    /\ EmptyDb /\ EmptyText /\ ScalesLoaded /\ NoRequests

CalculateTotalRiskScore ==
    /\ pc = "call"
    /\ risk_score' = calculate_total_risk_score(severity_scores, likelihood)
    /\ pc' = "scored"
    /\ UNCHANGED <<severity_scores, likelihood, priority>>
    /\ UNCHANGED db_vars
    /\ UNCHANGED text_vars
    /\ UNCHANGED scale_vars
    /\ UNCHANGED thread_vars

DeterminePriority ==
    /\ pc \in {"scored", "priority_call"}
    /\ priority' = determine_priority(risk_score)
    /\ pc' = IF pc = "scored" THEN "done" ELSE "priority_done"
    /\ UNCHANGED <<severity_scores, likelihood, risk_score>>
    /\ UNCHANGED db_vars
    /\ UNCHANGED text_vars
    /\ UNCHANGED scale_vars
    /\ UNCHANGED thread_vars

NextScore == CalculateTotalRiskScore \/ DeterminePriority

SpecScore == InitScore /\ [][NextScore]_vars

\* ------------------------------------------------------------------- text
\* A string is the sequence of its characters.
UpperCase ==
    [A |-> "a", B |-> "b", C |-> "c", D |-> "d", E |-> "e", F |-> "f",
     G |-> "g", H |-> "h", I |-> "i", J |-> "j", K |-> "k", L |-> "l",
     M |-> "m", N |-> "n", O |-> "o", P |-> "p", Q |-> "q", R |-> "r",
     S |-> "s", T |-> "t", U |-> "u", V |-> "v", W |-> "w", X |-> "x",
     Y |-> "y", Z |-> "z"]

\* str.lower()
lower(text) ==
    [i \in 1 .. Len(text) |->
        IF text[i] \in DOMAIN UpperCase THEN UpperCase[text[i]] ELSE text[i]]

\* the containment test matching a keyword only at the start of the text
Contains_prefix(text, keyword) ==
    /\ Len(keyword) <= Len(text)
    /\ \A k \in 1 .. Len(keyword) : text[k] = keyword[k]

\* keyword in text
Contains(text, keyword) ==
    \E i \in 0 .. (Len(text) - Len(keyword)) :
        \A k \in 1 .. Len(keyword) : text[i + k] = keyword[k]

\* any(keyword in text for keyword in keywords)
AnyKeyword(text, keywords) ==
    \E k \in 1 .. Len(keywords) : Contains(text, keywords[k])

high_risk_keywords ==
    <<<<"f", "a", "t", "a", "l">>,
      <<"d", "e", "a", "t", "h">>,
      <<"s", "e", "r", "i", "o", "u", "s", " ", "i", "n", "j", "u", "r", "y">>,
      <<"m", "a", "j", "o", "r", " ", "d", "a", "m", "a", "g", "e">>,
      <<"e", "x", "p", "l", "o", "s", "i", "o", "n">>>>

medium_risk_keywords ==
    <<<<"i", "n", "j", "u", "r", "y">>,
      <<"d", "a", "m", "a", "g", "e">>,
      <<"h", "a", "z", "a", "r", "d">>,
      <<"u", "n", "s", "a", "f", "e">>,
      <<"d", "a", "n", "g", "e", "r", "o", "u", "s">>>>

\* the assessment testing the medium-risk keywords first
assess_concern_severity_medium_first(description) ==
    LET description_lower == lower(description)
    IN  IF AnyKeyword(description_lower, medium_risk_keywords) THEN 5
        ELSE IF AnyKeyword(description_lower, high_risk_keywords) THEN 8
        ELSE 3

assess_concern_severity(description) ==
    LET description_lower == lower(description)
    IN  IF AnyKeyword(description_lower, high_risk_keywords) THEN 8
        ELSE IF AnyKeyword(description_lower, medium_risk_keywords) THEN 5
        ELSE 3

\* ------------------------------------------------------ intent classifier
\* float < float
FloatLess(x, y) == x.n < y.n \/ (x.n = y.n /\ x.err < y.err)

\* the intent_patterns dictionary in declaration order, weights in thousandths
intent_patterns ==
    <<[intent |-> "report_incident", weight |-> Literal(2000),
       keywords |->
         <<<<"i", "n", "c", "i", "d", "e", "n", "t">>,
           <<"a", "c", "c", "i", "d", "e", "n", "t">>,
           <<"i", "n", "j", "u", "r", "y">>,
           <<"h", "u", "r", "t">>,
           <<"i", "n", "j", "u", "r", "e", "d">>,
           <<"r", "e", "p", "o", "r", "t", " ", "i", "n", "c", "i", "d", "e", "n", "t">>,
           <<"h", "a", "p", "p", "e", "n", "e", "d">>,
           <<"o", "c", "c", "u", "r", "r", "e", "d">>,
           <<"e", "m", "e", "r", "g", "e", "n", "c", "y">>>>],
      [intent |-> "safety_concern", weight |-> Literal(2000),
       keywords |->
         <<<<"s", "a", "f", "e", "t", "y">>,
           <<"c", "o", "n", "c", "e", "r", "n">>,
           <<"u", "n", "s", "a", "f", "e">>,
           <<"d", "a", "n", "g", "e", "r", "o", "u", "s">>,
           <<"r", "i", "s", "k">>,
           <<"h", "a", "z", "a", "r", "d">>,
           <<"o", "b", "s", "e", "r", "v", "e">>,
           <<"n", "o", "t", "i", "c", "e", "d">>,
           <<"w", "o", "r", "r", "i", "e", "d">>>>],
      [intent |-> "sds_query", weight |-> Literal(2000),
       keywords |->
         <<<<"s", "d", "s">>,
           <<"c", "h", "e", "m", "i", "c", "a", "l">>,
           <<"s", "a", "f", "e", "t", "y", " ", "d", "a", "t", "a">>,
           <<"h", "a", "z", "a", "r", "d">>,
           <<"m", "s", "d", "s">>,
           <<"s", "u", "b", "s", "t", "a", "n", "c", "e">>,
           <<"m", "a", "t", "e", "r", "i", "a", "l">>,
           <<"a", "c", "e", "t", "o", "n", "e">>,
           <<"m", "e", "t", "h", "a", "n", "o", "l">>>>],
      [intent |-> "risk_assessment", weight |-> Literal(1800),
       keywords |->
         <<<<"r", "i", "s", "k">>,
           <<"a", "s", "s", "e", "s", "s">>,
           <<"a", "s", "s", "e", "s", "s", "m", "e", "n", "t">>,
           <<"e", "v", "a", "l", "u", "a", "t", "e">>,
           <<"p", "r", "o", "b", "a", "b", "i", "l", "i", "t", "y">>,
           <<"l", "i", "k", "e", "l", "i", "h", "o", "o", "d">>,
           <<"s", "e", "v", "e", "r", "i", "t", "y">>,
           <<"a", "n", "a", "l", "y", "s", "i", "s">>>>],
      [intent |-> "capa_management", weight |-> Literal(1500),
       keywords |->
         <<<<"c", "a", "p", "a">>,
           <<"c", "o", "r", "r", "e", "c", "t", "i", "v", "e">>,
           <<"p", "r", "e", "v", "e", "n", "t", "i", "v", "e">>,
           <<"a", "c", "t", "i", "o", "n">>,
           <<"f", "o", "l", "l", "o", "w", "-", "u", "p">>,
           <<"t", "r", "a", "c", "k", "i", "n", "g">>,
           <<"a", "s", "s", "i", "g", "n", "m", "e", "n", "t">>>>],
      [intent |-> "report_generation", weight |-> Literal(1500),
       keywords |->
         <<<<"r", "e", "p", "o", "r", "t">>,
           <<"g", "e", "n", "e", "r", "a", "t", "e">>,
           <<"e", "x", "p", "o", "r", "t">>,
           <<"d", "o", "w", "n", "l", "o", "a", "d">>,
           <<"p", "d", "f">>,
           <<"s", "t", "a", "t", "i", "s", "t", "i", "c", "s">>,
           <<"a", "n", "a", "l", "y", "t", "i", "c", "s">>>>],
      [intent |-> "help_general", weight |-> Literal(1000),
       keywords |->
         <<<<"h", "e", "l", "p">>,
           <<"w", "h", "a", "t">>,
           <<"h", "o", "w">>,
           <<"c", "a", "n", " ", "y", "o", "u">>,
           <<"a", "s", "s", "i", "s", "t">>,
           <<"g", "u", "i", "d", "e">>,
           <<"e", "x", "p", "l", "a", "i", "n">>,
           <<"t", "u", "t", "o", "r", "i", "a", "l">>>>],
      [intent |-> "training_inquiry", weight |-> Literal(1300),
       keywords |->
         <<<<"t", "r", "a", "i", "n", "i", "n", "g">>,
           <<"c", "o", "u", "r", "s", "e">>,
           <<"l", "e", "a", "r", "n">>,
           <<"e", "d", "u", "c", "a", "t", "i", "o", "n">>,
           <<"c", "e", "r", "t", "i", "f", "i", "c", "a", "t", "i", "o", "n">>,
           <<"p", "r", "o", "c", "e", "d", "u", "r", "e">>>>],
      [intent |-> "compliance_check", weight |-> Literal(1600),
       keywords |->
         <<<<"c", "o", "m", "p", "l", "i", "a", "n", "c", "e">>,
           <<"r", "e", "g", "u", "l", "a", "t", "i", "o", "n">>,
           <<"s", "t", "a", "n", "d", "a", "r", "d">>,
           <<"a", "u", "d", "i", "t">>,
           <<"i", "n", "s", "p", "e", "c", "t", "i", "o", "n">>,
           <<"l", "e", "g", "a", "l">>>>]>>

\* the inner loop: score += pattern['weight'] for each keyword in the text
RECURSIVE KeywordScore(_, _, _)
KeywordScore(message_lower, pattern, k) ==
    IF k = 0 THEN [n |-> 0, err |-> 0]
    ELSE LET before == KeywordScore(message_lower, pattern, k - 1)
         IN  IF Contains(message_lower, pattern.keywords[k])
             THEN FloatAdd(before, pattern.weight) ELSE before

\* the score of one intent capped at a single keyword match
intent_score_first_match(message_lower, pattern) ==
    IF AnyKeyword(message_lower, pattern.keywords)
    THEN pattern.weight ELSE [n |-> 0, err |-> 0]

\* intent_scores[intent]
intent_score(message_lower, pattern) ==
    KeywordScore(message_lower, pattern, Len(pattern.keywords))

\* max(intent_scores, key=intent_scores.get) returning the last maximum
first_maximum_last(intent_scores) ==
    CHOOSE i \in DOMAIN intent_scores :
        /\ \A j \in DOMAIN intent_scores :
            ~FloatLess(intent_scores[i], intent_scores[j])
        /\ \A j \in DOMAIN intent_scores :
            j > i => FloatLess(intent_scores[j], intent_scores[i])

\* max(intent_scores, key=intent_scores.get): the first key, in dictionary
\* order, whose score no other score exceeds
first_maximum(intent_scores) ==
    CHOOSE i \in DOMAIN intent_scores :
        /\ \A j \in DOMAIN intent_scores :
            ~FloatLess(intent_scores[i], intent_scores[j])
        /\ \A j \in DOMAIN intent_scores :
            j < i => FloatLess(intent_scores[j], intent_scores[i])

\* the classification without the max(intent_scores.values()) > 0 test
classify_enhanced_intent_no_zero_check(text) ==
    LET message_lower == lower(text)
        intent_scores ==
            [i \in DOMAIN intent_patterns |->
                intent_score(message_lower, intent_patterns[i])]
    IN  intent_patterns[first_maximum(intent_scores)].intent

\* if max(intent_scores.values()) > 0: return max(intent_scores,
\* key=intent_scores.get); return 'general'
classify_enhanced_intent(text) ==
    LET message_lower == lower(text)
        intent_scores ==
            [i \in DOMAIN intent_patterns |->
                intent_score(message_lower, intent_patterns[i])]
        best == first_maximum(intent_scores)
    IN  IF FloatLess([n |-> 0, err |-> 0], intent_scores[best])
        THEN intent_patterns[best].intent
        ELSE "general"

\* message.split(): the maximal runs of non-blank characters
RECURSIVE SplitWords(_, _, _)
SplitWords(text, i, word) ==
    IF i > Len(text)
    THEN IF word = <<>> THEN <<>> ELSE <<word>>
    ELSE IF text[i] = " "
         THEN (IF word = <<>> THEN <<>> ELSE <<word>>)
              \o SplitWords(text, i + 1, <<>>)
         ELSE SplitWords(text, i + 1, Append(word, text[i]))

\* the confidence counting the words of at most 3 characters
calculate_intent_confidence_short_words(text, intent_arg) ==
    LET words == SplitWords(text, 1, <<>>)
        count == Cardinality({i \in DOMAIN words : Len(words[i]) <= 3})
        raw == FloatAdd(Literal(600), FloatMul(count, Literal(50)))
    IN  IF FloatLess(raw, Literal(950)) THEN raw ELSE Literal(950)

\* the confidence without the min(0.95, ...) cap
calculate_intent_confidence_uncapped(text, intent_arg) ==
    LET words == SplitWords(text, 1, <<>>)
        count == Cardinality({i \in DOMAIN words : Len(words[i]) > 3})
    IN  FloatAdd(Literal(600), FloatMul(count, Literal(50)))

\* min(0.95, 0.6 + len([w for w in message.split() if len(w) > 3]) * 0.05)
calculate_intent_confidence(text, intent_arg) ==
    LET words == SplitWords(text, 1, <<>>)
        count == Cardinality({i \in DOMAIN words : Len(words[i]) > 3})
        raw == FloatAdd(Literal(600), FloatMul(count, Literal(50)))
    IN  IF FloatLess(raw, Literal(950)) THEN raw ELSE Literal(950)

\* --------------------------------------------------- text calls (SpecText)
Vocabulary ==
    <<<<"h", "a", "z", "a", "r", "d">>,
      <<"r", "i", "s", "k">>,
      <<"i", "n", "c", "i", "d", "e", "n", "t">>,
      <<"r", "e", "p", "o", "r", "t", " ", "i", "n", "c", "i", "d", "e", "n", "t">>,
      <<"a", "s", "s", "e", "s", "s", "m", "e", "n", "t">>,
      <<"S", "a", "f", "e", "t", "y", " ", "D", "a", "t", "a">>,
      <<"s", "h", "o", "w">>,
      <<"c", "a", "n", " ", "y", "o", "u", " ", "h", "e", "l", "p">>,
      <<"s", "d", "s">>,
      <<"a", "u", "d", "i", "t">>,
      <<"t", "r", "a", "i", "n", "i", "n", "g">>,
      <<"c", "a", "p", "a">>,
      <<"o", "k">>>>

\* ' '.join(words)
RECURSIVE JoinWords(_)
JoinWords(words) ==
    IF words = <<>> THEN <<>>
    ELSE IF Len(words) = 1 THEN words[1]
    ELSE words[1] \o <<" ">> \o JoinWords(Tail(words))

Phrases(vocabulary) ==
    UNION { [1 .. n -> DOMAIN vocabulary] : n \in 0 .. MaxWords }

PhraseText(vocabulary, phrase) ==
    JoinWords([i \in DOMAIN phrase |-> vocabulary[phrase[i]]])

ScenarioC ==
    <<"T", "h", "e", "r", "e", " ", "w", "a", "s", " ", "a", " ", "c", "h", "e", "m", "i", "c", "a", "l", " ", "s", "p", "i", "l", "l", ",", " ", "I", " ", "n", "e", "e", "d", " ", "t", "h", "e", " ", "S", "D", "S", " ", "f", "o", "r", " ", "a", "c", "e", "t", "o", "n", "e">>

LongMessage ==
    <<"c", "o", "m", "p", "l", "i", "a", "n", "c", "e", " ", "r", "e", "g", "u", "l", "a", "t", "i", "o", "n", " ", "s", "t", "a", "n", "d", "a", "r", "d", " ", "a", "u", "d", "i", "t", " ", "i", "n", "s", "p", "e", "c", "t", "i", "o", "n", " ", "i", "n", "c", "i", "d", "e", "n", "t", " ", "a", "c", "c", "i", "d", "e", "n", "t", " ", "h", "u", "r", "t", " ", "h", "a", "p", "p", "e", "n", "e", "d">>

Messages ==
    { PhraseText(Vocabulary, p) : p \in Phrases(Vocabulary) }
    \cup {ScenarioC, LongMessage}

\* a call of classify_enhanced_intent(message), followed as in
\* handle_enhanced_chat by calculate_intent_confidence(message, intent)
InitClassifyCall ==
    /\ pc = "classify_call"
    /\ message \in Messages
    /\ intent = NoValue
    /\ confidence = NoValue
    /\ hazard_description = NoValue
    /\ root_causes = NoValue
    /\ suggestion = NoValue

ClassifyEnhancedIntent ==
    /\ pc = "classify_call"
    /\ intent' = classify_enhanced_intent(message)
    /\ pc' = "classified"
    /\ UNCHANGED <<message, confidence, hazard_description, root_causes, suggestion>>
    /\ UNCHANGED <<severity_scores, likelihood, risk_score, priority>>
    /\ UNCHANGED db_vars
    /\ UNCHANGED scale_vars
    /\ UNCHANGED thread_vars

CalculateIntentConfidence ==
    /\ pc = "classified"
    /\ confidence' = calculate_intent_confidence(message, intent)
    /\ pc' = "confident"
    /\ UNCHANGED <<message, intent, hazard_description, root_causes, suggestion>>
    /\ UNCHANGED <<severity_scores, likelihood, risk_score, priority>>
    /\ UNCHANGED db_vars
    /\ UNCHANGED scale_vars
    /\ UNCHANGED thread_vars

\* ------------------------------------------------ corrective-action advice
\* action_mapping with ppe declared before maintenance
action_mapping_ppe_first ==
    <<[category |-> "training",
       keywords |->
         <<<<"i", "n", "a", "d", "e", "q", "u", "a", "t", "e", " ", "t", "r", "a", "i", "n", "i", "n", "g">>,
           <<"n", "o", "t", " ", "t", "r", "a", "i", "n", "e", "d">>,
           <<"p", "r", "o", "c", "e", "d", "u", "r", "e", " ", "n", "o", "t", " ", "f", "o", "l", "l", "o", "w", "e", "d">>,
           <<"u", "n", "f", "a", "m", "i", "l", "i", "a", "r">>>>],
      [category |-> "ppe",
       keywords |->
         <<<<"n", "o", " ", "p", "p", "e">>,
           <<"p", "p", "e", " ", "n", "o", "t", " ", "w", "o", "r", "n">>,
           <<"g", "l", "o", "v", "e", "s">>,
           <<"h", "e", "l", "m", "e", "t">>,
           <<"s", "a", "f", "e", "t", "y", " ", "g", "l", "a", "s", "s", "e", "s">>>>],
      [category |-> "maintenance",
       keywords |->
         <<<<"e", "q", "u", "i", "p", "m", "e", "n", "t", " ", "f", "a", "i", "l", "u", "r", "e">>,
           <<"f", "a", "u", "l", "t", "y">>,
           <<"b", "r", "o", "k", "e", "n">>,
           <<"m", "a", "l", "f", "u", "n", "c", "t", "i", "o", "n">>,
           <<"w", "o", "r", "n">>>>],
      [category |-> "housekeeping",
       keywords |->
         <<<<"s", "l", "i", "p">>,
           <<"s", "p", "i", "l", "l">>,
           <<"c", "l", "u", "t", "t", "e", "r">>,
           <<"m", "e", "s", "s">>,
           <<"d", "e", "b", "r", "i", "s">>>>],
      [category |-> "supervision",
       keywords |->
         <<<<"l", "a", "c", "k", " ", "o", "f", " ", "s", "u", "p", "e", "r", "v", "i", "s", "i", "o", "n">>,
           <<"n", "o", " ", "o", "v", "e", "r", "s", "i", "g", "h", "t">>,
           <<"u", "n", "s", "u", "p", "e", "r", "v", "i", "s", "e", "d">>>>],
      [category |-> "procedure",
       keywords |->
         <<<<"n", "o", " ", "p", "r", "o", "c", "e", "d", "u", "r", "e">>,
           <<"u", "n", "c", "l", "e", "a", "r", " ", "i", "n", "s", "t", "r", "u", "c", "t", "i", "o", "n", "s">>,
           <<"w", "r", "o", "n", "g", " ", "m", "e", "t", "h", "o", "d">>>>]>>

\* the action_mapping dictionary in declaration order
action_mapping ==
    <<[category |-> "training",
       keywords |->
         <<<<"i", "n", "a", "d", "e", "q", "u", "a", "t", "e", " ", "t", "r", "a", "i", "n", "i", "n", "g">>,
           <<"n", "o", "t", " ", "t", "r", "a", "i", "n", "e", "d">>,
           <<"p", "r", "o", "c", "e", "d", "u", "r", "e", " ", "n", "o", "t", " ", "f", "o", "l", "l", "o", "w", "e", "d">>,
           <<"u", "n", "f", "a", "m", "i", "l", "i", "a", "r">>>>],
      [category |-> "maintenance",
       keywords |->
         <<<<"e", "q", "u", "i", "p", "m", "e", "n", "t", " ", "f", "a", "i", "l", "u", "r", "e">>,
           <<"f", "a", "u", "l", "t", "y">>,
           <<"b", "r", "o", "k", "e", "n">>,
           <<"m", "a", "l", "f", "u", "n", "c", "t", "i", "o", "n">>,
           <<"w", "o", "r", "n">>>>],
      [category |-> "ppe",
       keywords |->
         <<<<"n", "o", " ", "p", "p", "e">>,
           <<"p", "p", "e", " ", "n", "o", "t", " ", "w", "o", "r", "n">>,
           <<"g", "l", "o", "v", "e", "s">>,
           <<"h", "e", "l", "m", "e", "t">>,
           <<"s", "a", "f", "e", "t", "y", " ", "g", "l", "a", "s", "s", "e", "s">>>>],
      [category |-> "housekeeping",
       keywords |->
         <<<<"s", "l", "i", "p">>,
           <<"s", "p", "i", "l", "l">>,
           <<"c", "l", "u", "t", "t", "e", "r">>,
           <<"m", "e", "s", "s">>,
           <<"d", "e", "b", "r", "i", "s">>>>],
      [category |-> "supervision",
       keywords |->
         <<<<"l", "a", "c", "k", " ", "o", "f", " ", "s", "u", "p", "e", "r", "v", "i", "s", "i", "o", "n">>,
           <<"n", "o", " ", "o", "v", "e", "r", "s", "i", "g", "h", "t">>,
           <<"u", "n", "s", "u", "p", "e", "r", "v", "i", "s", "e", "d">>>>],
      [category |-> "procedure",
       keywords |->
         <<<<"n", "o", " ", "p", "r", "o", "c", "e", "d", "u", "r", "e">>,
           <<"u", "n", "c", "l", "e", "a", "r", " ", "i", "n", "s", "t", "r", "u", "c", "t", "i", "o", "n", "s">>,
           <<"w", "r", "o", "n", "g", " ", "m", "e", "t", "h", "o", "d">>>>]>>

suggested_actions ==
    [training |->
       <<"P", "r", "o", "v", "i", "d", "e", " ", "c", "o", "m", "p", "r", "e", "h", "e", "n", "s", "i", "v", "e", " ", "s", "a", "f", "e", "t", "y", " ", "t", "r", "a", "i", "n", "i", "n", "g", " ", "a", "n", "d", " ", "c", "o", "m", "p", "e", "t", "e", "n", "c", "y", " ", "a", "s", "s", "e", "s", "s", "m", "e", "n", "t">>,
     maintenance |->
       <<"I", "m", "p", "l", "e", "m", "e", "n", "t", " ", "p", "r", "e", "v", "e", "n", "t", "i", "v", "e", " ", "m", "a", "i", "n", "t", "e", "n", "a", "n", "c", "e", " ", "s", "c", "h", "e", "d", "u", "l", "e", " ", "a", "n", "d", " ", "e", "q", "u", "i", "p", "m", "e", "n", "t", " ", "i", "n", "s", "p", "e", "c", "t", "i", "o", "n">>,
     ppe |->
       <<"E", "n", "f", "o", "r", "c", "e", " ", "P", "P", "E", " ", "r", "e", "q", "u", "i", "r", "e", "m", "e", "n", "t", "s", " ", "a", "n", "d", " ", "c", "o", "n", "d", "u", "c", "t", " ", "r", "e", "g", "u", "l", "a", "r", " ", "c", "o", "m", "p", "l", "i", "a", "n", "c", "e", " ", "c", "h", "e", "c", "k", "s">>,
     housekeeping |->
       <<"I", "m", "p", "r", "o", "v", "e", " ", "h", "o", "u", "s", "e", "k", "e", "e", "p", "i", "n", "g", " ", "s", "t", "a", "n", "d", "a", "r", "d", "s", " ", "a", "n", "d", " ", "i", "m", "p", "l", "e", "m", "e", "n", "t", " ", "5", "S", " ", "m", "e", "t", "h", "o", "d", "o", "l", "o", "g", "y">>,
     supervision |->
       <<"E", "n", "h", "a", "n", "c", "e", " ", "s", "u", "p", "e", "r", "v", "i", "s", "o", "r", "y", " ", "o", "v", "e", "r", "s", "i", "g", "h", "t", " ", "a", "n", "d", " ", "s", "a", "f", "e", "t", "y", " ", "l", "e", "a", "d", "e", "r", "s", "h", "i", "p">>,
     procedure |->
       <<"R", "e", "v", "i", "e", "w", " ", "a", "n", "d", " ", "u", "p", "d", "a", "t", "e", " ", "p", "r", "o", "c", "e", "d", "u", "r", "e", "s", ",", " ", "e", "n", "s", "u", "r", "e", " ", "c", "l", "e", "a", "r", " ", "w", "o", "r", "k", " ", "i", "n", "s", "t", "r", "u", "c", "t", "i", "o", "n", "s">>]

fallback_action ==
    <<"C", "o", "n", "d", "u", "c", "t", " ", "t", "h", "o", "r", "o", "u", "g", "h", " ", "i", "n", "v", "e", "s", "t", "i", "g", "a", "t", "i", "o", "n", " ", "a", "n", "d", " ", "i", "m", "p", "l", "e", "m", "e", "n", "t", " ", "a", "p", "p", "r", "o", "p", "r", "i", "a", "t", "e", " ", "c", "o", "r", "r", "e", "c", "t", "i", "v", "e", " ", "m", "e", "a", "s", "u", "r", "e", "s">>

\* the for loop: the index of the first category with a keyword in the
\* text, 0 when the loop ends without a match
RECURSIVE FirstMatchingCategory(_, _)
FirstMatchingCategory(combined_text, i) ==
    IF i > Len(action_mapping) THEN 0
    ELSE IF AnyKeyword(combined_text, action_mapping[i].keywords) THEN i
    ELSE FirstMatchingCategory(combined_text, i + 1)

suggest_corrective_action(description, five_whys) ==
    LET combined_text == lower(description \o <<" ">> \o JoinWords(five_whys))
        i == FirstMatchingCategory(combined_text, 1)
    IN  IF i = 0 THEN fallback_action
        ELSE suggested_actions[action_mapping[i].category]

DescriptionVocabulary ==
    <<<<"n", "o", "t", " ", "t", "r", "a", "i", "n", "e", "d">>,
      <<"B", "r", "o", "k", "e", "n">>,
      <<"h", "e", "l", "m", "e", "t">>,
      <<"s", "p", "i", "l", "l">>,
      <<"u", "n", "s", "u", "p", "e", "r", "v", "i", "s", "e", "d">>,
      <<"w", "r", "o", "n", "g", " ", "m", "e", "t", "h", "o", "d">>,
      <<"o", "k">>>>

ScenarioE ==
    <<"e", "m", "p", "l", "o", "y", "e", "e", " ", "w", "a", "s", " ", "n", "o", "t", " ", "t", "r", "a", "i", "n", "e", "d", " ", "o", "n", " ", "t", "h", "e", " ", "l", "o", "c", "k", "o", "u", "t", " ", "p", "r", "o", "c", "e", "d", "u", "r", "e">>

Descriptions ==
    { PhraseText(DescriptionVocabulary, p) : p \in Phrases(DescriptionVocabulary) }
    \cup {ScenarioE}

RootCauseNotes ==
    { <<>>,
      <<<<"u", "n", "f", "a", "m", "i", "l", "i", "a", "r">>>>,
      <<<<"w", "o", "r", "n">>, <<"d", "e", "b", "r", "i", "s">>>> }

\* a call of suggest_corrective_action(description, five_whys)
InitSuggestCall ==
    /\ pc = "suggest_call"
    /\ hazard_description \in Descriptions
    /\ root_causes \in RootCauseNotes
    /\ suggestion = NoValue
    /\ message = NoValue
    /\ intent = NoValue
    /\ confidence = NoValue

SuggestCorrectiveAction ==
    /\ pc = "suggest_call"
    /\ suggestion' = suggest_corrective_action(hazard_description, root_causes)
    /\ pc' = "suggested"
    /\ UNCHANGED <<message, intent, confidence, hazard_description, root_causes>>
    /\ UNCHANGED <<severity_scores, likelihood, risk_score, priority>>
    /\ UNCHANGED db_vars
    /\ UNCHANGED scale_vars
    /\ UNCHANGED thread_vars

NoScoreCall ==
    /\ severity_scores = NoValue
    /\ likelihood = NoValue
    /\ risk_score = NoValue
    /\ priority = NoValue

InitText ==
    /\ InitClassifyCall \/ InitSuggestCall
    /\ NoScoreCall /\ EmptyDb /\ ScalesLoaded /\ NoRequests

NextText ==
    ClassifyEnhancedIntent \/ CalculateIntentConfidence \/ SuggestCorrectiveAction

SpecText == InitText /\ [][NextText]_vars

\* every engine function called on its own
InitEngine == InitScore \/ InitText

NextEngine == NextScore \/ NextText

SpecEngine == InitEngine /\ [][NextEngine]_vars

\* --------------------------------------------------------- request fields
\* A JSON field is an integer, absent, or a value int() rejects.
IntField(v) == [kind |-> "int", val |-> v]

Missing == [kind |-> "missing", val |-> 0]

NonNumeric == [kind |-> "text", val |-> 0]

\* int(data.get(key, default)) raises ValueError
IntRaises(field) == field.kind = "text"

\* int(data.get(key, default))
IntOf(field, default) == IF field.kind = "int" THEN field.val ELSE default

\* --------------------------------------------------------------- handlers
\* the CAPA branch taken only from 80 up
auto_create_capa_above_escalation(total_risk_score) == total_risk_score >= 800

\* the auto-CAPA branch taken at every non-negative score
auto_create_capa_at_any_score(total_risk_score) == total_risk_score >= 0

\* the branch conditions of create_enhanced_incident, score in tenths
auto_create_capa(total_risk_score) == total_risk_score >= 500

escalate_notification(total_risk_score) == total_risk_score >= 750

\* EnhancedEHSSystem defines neither log_audit_action nor
\* create_notification: the call raises AttributeError.
log_audit_action_defined == FALSE

create_notification_defined == FALSE

\* max(severity_scores.values())
max_severity(scores) ==
    CHOOSE m \in {scores[c] : c \in CategorySet} :
        \A c \in CategorySet : scores[c] <= m

IncidentData(p, e, c, r, l, k) ==
    [severity_people |-> p, severity_environment |-> e, severity_cost |-> c,
     severity_reputation |-> r, severity_legal |-> l, likelihood |-> k]

IntIncident(p, e, c, r, l, k) ==
    IncidentData(IntField(p), IntField(e), IntField(c), IntField(r),
                 IntField(l), IntField(k))

\* the severity and likelihood fields of the request bodies
IncidentScoreFields ==
    { IncidentData(Missing, Missing, Missing, Missing, Missing, Missing),
      IncidentData(IntField(8), Missing, Missing, Missing, Missing, NonNumeric),
      IntIncident(8, 4, 2, 0, 0, 8),
      IntIncident(0, 0, 0, 1, 0, 10),
      IntIncident(10, 10, 10, 10, 10, 10),
      IntIncident(11, 10, 10, 10, 10, 10),
      IntIncident(40, 32, 32, 1, 0, 20),
      IntIncident(20, 20, 20, 20, 20, 25),
      IntIncident(30, 30, 30, 30, 30, 20),
      IntIncident(40, 40, 40, 40, 23, 20),
      IntIncident(30, 30, 30, 30, 30, 25),
      IntIncident(38, 38, 38, 38, 38, 20),
      IntIncident(40, 40, 40, 40, 40, 40) }

\* a JSON string field and a JSON list-of-strings field
TextField(text) == [kind |-> "str", val |-> text]

ListField(texts) == [kind |-> "list", val |-> texts]

\* data.get(key, '') and data.get(key, [])
TextOf(field) == IF field.kind = "missing" THEN <<>> ELSE field.val

IncidentText(d, w, a) ==
    [description |-> d, five_whys |-> w, corrective_action |-> a]

\* an element of the injured_persons or witnesses list: a JSON object with
\* a name, or a JSON string
Person(name) == [kind |-> "object", name |-> name]

IncidentPeople(p, w) == [injured_persons |-> p, witnesses |-> w]

\* request bodies of POST /api/incident without injured persons and witnesses
IncidentBodies ==
    { f @@ IncidentText(Missing, Missing, Missing) : f \in IncidentScoreFields }
    \cup
    { IntIncident(8, 4, 2, 0, 0, 8)
        @@ IncidentText(TextField(<<"B", "r", "o", "k", "e", "n", " ", "h", "e", "l", "m", "e", "t">>),
                        Missing, Missing),
      IntIncident(8, 4, 2, 0, 0, 8)
        @@ IncidentText(TextField(<<"o", "k">>),
                        ListField(<<<<"w", "o", "r", "n">>, <<"d", "e", "b", "r", "i", "s">>>>),
                        TextField(<<>>)),
      IntIncident(8, 4, 2, 0, 0, 8)
        @@ IncidentText(TextField(<<"s", "p", "i", "l", "l">>), Missing,
                        TextField(<<"R", "e", "p", "l", "a", "c", "e", " ", "g", "u", "a", "r", "d">>)) }

\* request bodies of POST /api/incident
IncidentRequests ==
    { b @@ IncidentPeople(Missing, Missing) : b \in IncidentBodies }
    \cup
    { IntIncident(8, 4, 2, 0, 0, 8) @@ IncidentText(Missing, Missing, Missing)
        @@ IncidentPeople(ListField(<<Person(<<"A", "n", "n">>)>>),
                          ListField(<<Person(<<"B", "o">>), Person(<<"C", "y">>)>>)),
      IntIncident(38, 38, 38, 38, 38, 20) @@ IncidentText(Missing, Missing, Missing)
        @@ IncidentPeople(ListField(<<Person(<<"A", "n", "n">>)>>),
                          ListField(<<TextField(<<"B", "o">>)>>)) }

\* the stored corrective action taken from the recommender in every case
stored_corrective_action_always_suggested(data) ==
    suggest_corrective_action(TextOf(data.description), TextOf(data.five_whys))

\* corrective_action = data.get('corrective_action'); if not
\* corrective_action: corrective_action = self.suggest_corrective_action(...)
stored_corrective_action(data) ==
    LET corrective_action == data.corrective_action
        falsy == \/ corrective_action.kind = "missing"
                 \/ (corrective_action.kind = "str" /\ corrective_action.val = <<>>)
    IN  IF falsy
        THEN suggest_corrective_action(TextOf(data.description),
                                       TextOf(data.five_whys))
        ELSE corrective_action.val

IncidentFields(data) ==
    <<data.severity_people, data.severity_environment, data.severity_cost,
      data.severity_reputation, data.severity_legal, data.likelihood>>

RecordCount == Len(incidents) + Len(safety_concerns)

\* uuid.uuid4(): a fresh identifier
NewId(table) == Len(table) + 1

\* the row of the INSERT INTO incidents statement
incident_row(data, incident_id) ==
    LET scores == Sev(IntOf(data.severity_people, 0),
                      IntOf(data.severity_environment, 0),
                      IntOf(data.severity_cost, 0),
                      IntOf(data.severity_reputation, 0),
                      IntOf(data.severity_legal, 0))
        lik == IntOf(data.likelihood, 0)
        unused_max_severity == max_severity(scores)
        total_risk_score == calculate_total_risk_score(scores, lik)
    IN  [id |-> incident_id, severity |-> scores,
         likelihood_score |-> lik,
         total_risk_score |-> total_risk_score,
         priority |-> determine_priority(total_risk_score),
         description |-> TextOf(data.description),
         five_whys |-> TextOf(data.five_whys),
         corrective_action |-> stored_corrective_action(data)]

\* person.get(...) and witness.get(...) raise AttributeError on a list
\* element that is not an object
PersonRaises(items) == \E i \in DOMAIN items : items[i].kind # "object"

\* the rows of the INSERT INTO injured_persons and INSERT INTO witnesses
\* statements, one per list element
person_rows(items, incident_id) ==
    [i \in DOMAIN items |-> [incident_id |-> incident_id, name |-> items[i].name]]

\* the row of the INSERT INTO capa_actions statement
capa_row(capa_id, incident_id) ==
    [id |-> capa_id, source_type |-> "incident",
     source_id |-> incident_id, action_type |-> "corrective",
     priority |-> "high"]

\* the JSON body returned after the commit
incident_response(row) ==
    LET notify == log_audit_action_defined /\ escalate_notification(row.total_risk_score)
    IN  IF ~log_audit_action_defined
           \/ (notify /\ ~create_notification_defined)
        THEN [success |-> FALSE, error |-> "AttributeError"]
        ELSE [success |-> TRUE, incident_id |-> row.id,
              total_risk_score |-> row.total_risk_score,
              priority |-> determine_priority(row.total_risk_score),
              auto_capa_created |-> auto_create_capa(row.total_risk_score)]

create_enhanced_incident(data) ==
    LET incident_id == NewId(incidents)
        raises == \E i \in 1 .. 6 : IntRaises(IncidentFields(data)[i])
        row == incident_row(data, incident_id)
        total_risk_score == row.total_risk_score
        capa == capa_row(NewId(capa_actions), incident_id)
        note == [recipient |-> "safety_manager", priority |-> "critical",
                 module |-> "incidents", record_id |-> incident_id]
        notify == log_audit_action_defined /\ escalate_notification(total_risk_score)
    IN  IF raises
        THEN /\ response' = [success |-> FALSE, error |-> "ValueError"]
             /\ UNCHANGED <<incidents, capa_actions, safety_concerns, notifications>>
             /\ UNCHANGED <<injured_persons, witnesses, chat_history>>
        ELSE IF PersonRaises(TextOf(data.injured_persons))
                \/ PersonRaises(TextOf(data.witnesses))
        THEN /\ response' = [success |-> FALSE, error |-> "AttributeError"]
             /\ UNCHANGED <<incidents, capa_actions, safety_concerns, notifications>>
             /\ UNCHANGED <<injured_persons, witnesses, chat_history>>
        ELSE /\ incidents' = Append(incidents, row)
             /\ injured_persons' =
                    injured_persons
                    \o person_rows(TextOf(data.injured_persons), incident_id)
             /\ witnesses' =
                    witnesses \o person_rows(TextOf(data.witnesses), incident_id)
             /\ capa_actions' =
                    IF auto_create_capa(total_risk_score)
                    THEN Append(capa_actions, capa) ELSE capa_actions
             /\ notifications' =
                    IF notify /\ create_notification_defined
                    THEN Append(notifications, note) ELSE notifications
             /\ response' = incident_response(row)
             /\ UNCHANGED <<safety_concerns, chat_history>>

CreateEnhancedIncident ==
    /\ RecordCount < MaxRecords
    /\ \E data \in IncidentRequests : create_enhanced_incident(data)
    /\ UNCHANGED engine_vars
    /\ UNCHANGED text_vars
    /\ UNCHANGED scale_vars
    /\ UNCHANGED thread_vars

ConcernData(d, s, k) ==
    [description |-> d, severity_level |-> s, likelihood_level |-> k]

\* request bodies of POST /api/safety-concerns
ConcernRequests ==
    { ConcernData(<<"w", "e", "t", " ", "f", "l", "o", "o", "r">>, Missing, Missing),
      ConcernData(<<"u", "n", "s", "a", "f", "e">>, Missing, Missing),
      ConcernData(<<"F", "a", "t", "a", "l", " ", "f", "a", "l", "l">>, Missing, Missing),
      ConcernData(<<"S", "e", "r", "i", "o", "u", "s", " ", "i", "n", "j", "u", "r", "y">>, Missing, Missing),
      ConcernData(<<>>, NonNumeric, Missing),
      ConcernData(<<>>, IntField(0), IntField(0)),
      ConcernData(<<>>, IntField(10), IntField(10)),
      ConcernData(<<>>, IntField(11), IntField(10)),
      ConcernData(<<>>, IntField(-1), IntField(10)) }

create_enhanced_safety_concern(data) ==
    LET concern_id == NewId(safety_concerns)
        severity == assess_concern_severity(data.description)
        raises == IntRaises(data.severity_level) \/ IntRaises(data.likelihood_level)
        severity_score == IntOf(data.severity_level, severity)
        likelihood_score == IntOf(data.likelihood_level, 5)
        concern_risk_score == 10 * (severity_score * likelihood_score)
        row == [id |-> concern_id, description |-> data.description,
                severity_level |-> severity_score,
                likelihood_level |-> likelihood_score,
                risk_score |-> concern_risk_score,
                priority |-> determine_priority(concern_risk_score)]
    IN  IF raises
        THEN /\ response' = [success |-> FALSE, error |-> "ValueError"]
             /\ UNCHANGED <<incidents, capa_actions, safety_concerns, notifications>>
             /\ UNCHANGED <<injured_persons, witnesses, chat_history>>
        ELSE /\ safety_concerns' = Append(safety_concerns, row)
             /\ response' =
                    IF ~log_audit_action_defined
                    THEN [success |-> FALSE, error |-> "AttributeError"]
                    ELSE [success |-> TRUE, concern_id |-> concern_id,
                          risk_score |-> concern_risk_score]
             /\ UNCHANGED <<incidents, capa_actions, notifications>>
             /\ UNCHANGED <<injured_persons, witnesses, chat_history>>

CreateEnhancedSafetyConcern ==
    /\ RecordCount < MaxRecords
    /\ \E data \in ConcernRequests : create_enhanced_safety_concern(data)
    /\ UNCHANGED engine_vars
    /\ UNCHANGED text_vars
    /\ UNCHANGED scale_vars
    /\ UNCHANGED thread_vars

\* ------------------------------------------- concurrent engine calls
\* Several callers each invoke one engine function.  A function body reads
\* its arguments and its own literals and writes only its own locals, so a
\* call is one step on the caller's own slot.
RequestIds == 1 .. MaxRequests

\* a connection with no uncommitted rows
NoRows == [incidents |-> <<>>, injured_persons |-> <<>>, witnesses |-> <<>>,
           capa_actions |-> <<>>]

EngineCalls ==
    { [fn |-> "calculate_total_risk_score", arg |-> ScenarioA],
      [fn |-> "calculate_total_risk_score",
       arg |-> [severity |-> Sev(10, 10, 10, 10, 10), likelihood |-> 10]],
      [fn |-> "determine_priority", arg |-> 29],
      [fn |-> "determine_priority", arg |-> 500],
      [fn |-> "classify_enhanced_intent", arg |-> ScenarioC],
      [fn |-> "classify_enhanced_intent", arg |-> Vocabulary[1]],
      [fn |-> "calculate_intent_confidence", arg |-> ScenarioC],
      [fn |-> "suggest_corrective_action", arg |-> ScenarioE],
      [fn |-> "assess_concern_severity", arg |-> <<"S", "e", "r", "i", "o", "u", "s", " ", "i", "n", "j", "u", "r", "y">>],
      [fn |-> "assess_concern_severity", arg |-> <<"w", "e", "t", " ", "f", "l", "o", "o", "r">>] }

\* the value the function returns for the argument
engine_result(call) ==
    CASE call.fn = "calculate_total_risk_score" ->
            calculate_total_risk_score(call.arg.severity, call.arg.likelihood)
      [] call.fn = "determine_priority" -> determine_priority(call.arg)
      [] call.fn = "classify_enhanced_intent" -> classify_enhanced_intent(call.arg)
      [] call.fn = "calculate_intent_confidence" ->
            calculate_intent_confidence(call.arg, "general")
      [] call.fn = "suggest_corrective_action" ->
            suggest_corrective_action(call.arg, <<>>)
      [] call.fn = "assess_concern_severity" -> assess_concern_severity(call.arg)

InitCalls ==
    /\ pc = "calling"
    /\ requests \in [RequestIds ->
            {[pc |-> "call", call |-> c, result |-> <<>>] : c \in EngineCalls}]
    /\ transaction = [r \in RequestIds |-> NoRows]
    /\ db_lock = 0
    /\ NoScoreCall /\ EmptyDb /\ EmptyText /\ ScalesLoaded

\* the call returning through a result slot shared by all callers
EngineCall_shared_result(c) ==
    /\ requests[c].pc = "call"
    /\ requests' =
            [k \in RequestIds |->
                IF k = c
                THEN [requests[c] EXCEPT
                        !.pc = "returned",
                        !.result = <<engine_result(requests[c].call)>>]
                ELSE [requests[k] EXCEPT !.result = <<>>]]
    /\ UNCHANGED <<transaction, db_lock>>
    /\ UNCHANGED db_vars
    /\ UNCHANGED engine_vars
    /\ UNCHANGED text_vars
    /\ UNCHANGED scale_vars

\* caller c runs its call to the return statement
EngineCall(c) ==
    /\ requests[c].pc = "call"
    /\ requests' = [requests EXCEPT
            ![c].pc = "returned",
            ![c].result = <<engine_result(requests[c].call)>>]
    /\ UNCHANGED <<transaction, db_lock>>
    /\ UNCHANGED db_vars
    /\ UNCHANGED engine_vars
    /\ UNCHANGED text_vars
    /\ UNCHANGED scale_vars

NextCalls == \E c \in RequestIds : EngineCall(c)

SpecCalls == InitCalls /\ [][NextCalls]_vars

\* ------------------------------------- concurrent POST /api/incident requests
\* Each request runs create_enhanced_incident on its own connection.  The
\* rows a connection inserts stay in its transaction, invisible to the
\* tables, until conn.commit(); the first INSERT takes the database write
\* lock, which the connection holds until it commits or is dropped.
\* the connection committing every INSERT at once
implicit_transaction_off == FALSE

\* sqlite3.connect() with the default isolation_level: the first INSERT
\* opens a transaction
implicit_transaction == TRUE

ConcurrentBodies ==
    { IntIncident(38, 38, 38, 38, 38, 20) @@ IncidentText(Missing, Missing, Missing)
        @@ IncidentPeople(Missing, Missing),
      IntIncident(8, 4, 2, 0, 0, 8) @@ IncidentText(Missing, Missing, Missing)
        @@ IncidentPeople(ListField(<<Person(<<"A", "n", "n">>)>>),
                          ListField(<<Person(<<"B", "o">>), Person(<<"C", "y">>)>>)),
      IntIncident(38, 38, 38, 38, 38, 20) @@ IncidentText(Missing, Missing, Missing)
        @@ IncidentPeople(ListField(<<Person(<<"A", "n", "n">>)>>),
                          ListField(<<TextField(<<"B", "o">>)>>)),
      IncidentData(IntField(8), Missing, Missing, Missing, Missing, NonNumeric)
        @@ IncidentText(Missing, Missing, Missing)
        @@ IncidentPeople(Missing, Missing) }

InitRequests ==
    /\ pc = "serving"
    /\ requests \in [RequestIds ->
            {[pc |-> "start", data |-> d, row |-> NoValue] : d \in ConcurrentBodies}]
    /\ transaction = [r \in RequestIds |-> NoRows]
    /\ db_lock = 0
    /\ NoScoreCall /\ EmptyDb /\ EmptyText /\ ScalesLoaded

\* the except branch: the response is returned and the connection, if any,
\* is dropped without a commit
Fail(r, error) ==
    /\ requests' = [requests EXCEPT ![r].pc = "answered"]
    /\ transaction' = [transaction EXCEPT ![r] = NoRows]
    /\ db_lock' = IF db_lock = r THEN 0 ELSE db_lock
    /\ response' = [success |-> FALSE, error |-> error]

\* an INSERT of rows into a table by request r
Insert(r, table, rows) ==
    IF implicit_transaction
    THEN /\ transaction' = [transaction EXCEPT ![r][table] = @ \o rows]
         /\ UNCHANGED <<incidents, injured_persons, witnesses, capa_actions>>
    ELSE /\ incidents' = IF table = "incidents" THEN incidents \o rows ELSE incidents
         /\ injured_persons' =
                IF table = "injured_persons" THEN injured_persons \o rows
                ELSE injured_persons
         /\ witnesses' = IF table = "witnesses" THEN witnesses \o rows ELSE witnesses
         /\ capa_actions' =
                IF table = "capa_actions" THEN capa_actions \o rows ELSE capa_actions
         /\ UNCHANGED transaction

\* from request.get_json() to sqlite3.connect(); uuid4 gives each request
\* an id no other request has
Prepare(r) ==
    /\ requests[r].pc = "start"
    /\ IF \E i \in 1 .. 6 : IntRaises(IncidentFields(requests[r].data)[i])
       THEN Fail(r, "ValueError")
       ELSE /\ requests' = [requests EXCEPT
                    ![r].pc = "connected",
                    ![r].row = incident_row(requests[r].data, r)]
            /\ UNCHANGED <<transaction, db_lock, response>>
    /\ UNCHANGED <<incidents, injured_persons, witnesses, capa_actions>>

\* INSERT INTO incidents: waits while another connection holds the lock
InsertIncident(r) ==
    /\ requests[r].pc = "connected"
    /\ db_lock = 0
    /\ db_lock' = r
    /\ Insert(r, "incidents", <<requests[r].row>>)
    /\ requests' = [requests EXCEPT ![r].pc = "incident_inserted"]
    /\ UNCHANGED response

\* the wait for the lock ends with OperationalError: database is locked
LockTimeout(r) ==
    /\ requests[r].pc = "connected"
    /\ db_lock \notin {0, r}
    /\ Fail(r, "OperationalError")
    /\ UNCHANGED <<incidents, injured_persons, witnesses, capa_actions>>

\* the loops over injured_persons and witnesses
InsertPeople(r) ==
    LET data == requests[r].data
    IN  /\ requests[r].pc = "incident_inserted"
        /\ IF PersonRaises(TextOf(data.injured_persons))
           THEN /\ Fail(r, "AttributeError")
                /\ UNCHANGED <<incidents, injured_persons, witnesses, capa_actions>>
           ELSE /\ Insert(r, "injured_persons",
                          person_rows(TextOf(data.injured_persons), r))
                /\ requests' = [requests EXCEPT ![r].pc = "injured_inserted"]
                /\ UNCHANGED <<db_lock, response>>

InsertWitnesses(r) ==
    LET data == requests[r].data
    IN  /\ requests[r].pc = "injured_inserted"
        /\ IF PersonRaises(TextOf(data.witnesses))
           THEN /\ Fail(r, "AttributeError")
                /\ UNCHANGED <<incidents, injured_persons, witnesses, capa_actions>>
           ELSE /\ Insert(r, "witnesses", person_rows(TextOf(data.witnesses), r))
                /\ requests' = [requests EXCEPT ![r].pc = "witnesses_inserted"]
                /\ UNCHANGED <<db_lock, response>>

\* if total_risk_score >= 50: INSERT INTO capa_actions
InsertCapa(r) ==
    /\ requests[r].pc = "witnesses_inserted"
    /\ Insert(r, "capa_actions",
              IF auto_create_capa(requests[r].row.total_risk_score)
              THEN <<capa_row(r, r)>> ELSE <<>>)
    /\ requests' = [requests EXCEPT ![r].pc = "capa_done"]
    /\ UNCHANGED <<db_lock, response>>

\* conn.commit(); conn.close()
Commit(r) ==
    /\ requests[r].pc = "capa_done"
    /\ incidents' = incidents \o transaction[r].incidents
    /\ injured_persons' = injured_persons \o transaction[r].injured_persons
    /\ witnesses' = witnesses \o transaction[r].witnesses
    /\ capa_actions' = capa_actions \o transaction[r].capa_actions
    /\ transaction' = [transaction EXCEPT ![r] = NoRows]
    /\ db_lock' = 0
    /\ requests' = [requests EXCEPT ![r].pc = "committed"]
    /\ UNCHANGED response

\* log_audit_action, create_notification and the response
Answer(r) ==
    /\ requests[r].pc = "committed"
    /\ response' = incident_response(requests[r].row)
    /\ requests' = [requests EXCEPT ![r].pc = "answered"]
    /\ UNCHANGED <<transaction, db_lock>>
    /\ UNCHANGED <<incidents, injured_persons, witnesses, capa_actions>>

ServeRequest(r) ==
    /\ \/ Prepare(r)
       \/ InsertIncident(r)
       \/ LockTimeout(r)
       \/ InsertPeople(r)
       \/ InsertWitnesses(r)
       \/ InsertCapa(r)
       \/ Commit(r)
       \/ Answer(r)
    /\ UNCHANGED <<safety_concerns, notifications, chat_history>>
    /\ UNCHANGED engine_vars
    /\ UNCHANGED text_vars
    /\ UNCHANGED scale_vars

NextRequests == \E r \in RequestIds : ServeRequest(r)

SpecRequests == InitRequests /\ [][NextRequests]_vars

\* ------------------------------------------------------------ chat handler
\* the methods EnhancedEHSSystem defines, of those the chat handler calls;
\* a call of any other raises AttributeError
DefinedChatMethods ==
    {"classify_enhanced_intent", "calculate_intent_confidence",
     "generate_contextual_response", "incident_response_enhanced",
     "safety_response_enhanced", "sds_response_enhanced",
     "get_follow_up_suggestions"}

\* the method generate_contextual_response calls for an intent
response_method(intent_arg) ==
    IF intent_arg = "report_incident" THEN "incident_response_enhanced"
    ELSE IF intent_arg = "safety_concern" THEN "safety_response_enhanced"
    ELSE IF intent_arg = "sds_query" THEN "sds_response_enhanced"
    ELSE IF intent_arg = "risk_assessment" THEN "risk_assessment_response_enhanced"
    ELSE IF intent_arg = "capa_management" THEN "capa_response_enhanced"
    ELSE IF intent_arg = "report_generation" THEN "report_generation_response"
    ELSE IF intent_arg = "training_inquiry" THEN "training_response"
    ELSE IF intent_arg = "compliance_check" THEN "compliance_response"
    ELSE IF intent_arg = "help_general" THEN "help_response_enhanced"
    ELSE "default_response_enhanced"

\* the methods called, in order, between the classification and the return
chat_steps(intent_arg) ==
    <<"get_conversation_context", response_method(intent_arg),
      "store_enhanced_chat_history", "get_follow_up_suggestions">>

\* the except branch of handle_enhanced_chat
apology_response == [response |-> "apology", error |-> TRUE, intent |-> "error"]

\* POST /api/chat with a message
InitChatCall ==
    /\ pc = "chat_call"
    /\ message \in Messages
    /\ intent = NoValue
    /\ confidence = NoValue
    /\ hazard_description = NoValue
    /\ root_causes = NoValue
    /\ suggestion = NoValue

\* the statements of handle_enhanced_chat after the classification
chat_outcome(message_lower, intent_local, confidence_local) ==
    LET steps == chat_steps(intent_local)
        raises == \E k \in DOMAIN steps : steps[k] \notin DefinedChatMethods
        stored == \A k \in 1 .. 3 : steps[k] \in DefinedChatMethods
    IN  /\ intent' = intent_local
        /\ confidence' = confidence_local
        /\ chat_history' =
                IF stored
                THEN Append(chat_history,
                            [user_message |-> message_lower,
                             bot_response |-> response_method(intent_local),
                             intent |-> intent_local,
                             confidence |-> confidence_local])
                ELSE chat_history
        /\ response' =
                IF raises THEN apology_response
                ELSE [response |-> response_method(intent_local),
                      intent |-> intent_local,
                      confidence |-> confidence_local]

HandleEnhancedChat ==
    /\ pc = "chat_call"
    /\ \E intent_local \in {classify_enhanced_intent(lower(message))} :
        \E confidence_local \in
                {calculate_intent_confidence(lower(message), intent_local)} :
            chat_outcome(lower(message), intent_local, confidence_local)
    /\ pc' = "chat_done"
    /\ UNCHANGED <<message, hazard_description, root_causes, suggestion>>
    /\ UNCHANGED <<severity_scores, likelihood, risk_score, priority>>
    /\ UNCHANGED <<incidents, capa_actions, safety_concerns, notifications>>
    /\ UNCHANGED <<injured_persons, witnesses>>
    /\ UNCHANGED scale_vars
    /\ UNCHANGED thread_vars

InitChat == InitChatCall /\ NoScoreCall /\ EmptyDb /\ ScalesLoaded /\ NoRequests

NextChat == HandleEnhancedChat

SpecChat == InitChat /\ [][NextChat]_vars

\* ----------------------------------------------------- dashboard statistics
\* the CASE expression with the band limits included in the lower band
risk_level_inclusive(total_risk_score) ==
    IF total_risk_score <= 250 THEN "Low"
    ELSE IF total_risk_score <= 500 THEN "Medium"
    ELSE IF total_risk_score <= 750 THEN "High"
    ELSE "Critical"

\* CASE WHEN total_risk_score < 25 THEN 'Low' WHEN total_risk_score < 50
\* THEN 'Medium' WHEN total_risk_score < 75 THEN 'High' ELSE 'Critical' END
risk_level(total_risk_score) ==
    IF total_risk_score < 250 THEN "Low"
    ELSE IF total_risk_score < 500 THEN "Medium"
    ELSE IF total_risk_score < 750 THEN "High"
    ELSE "Critical"

\* SELECT COUNT(*) FROM incidents WHERE total_risk_score >= 50
high_risk_incidents ==
    Cardinality({i \in DOMAIN incidents : incidents[i].total_risk_score >= 500})

\* SELECT risk_level, COUNT(*) FROM incidents WHERE total_risk_score > 0
\* GROUP BY risk_level: one row per level that occurs
risk_distribution ==
    LET counted(level) ==
            Cardinality({i \in DOMAIN incidents :
                            /\ incidents[i].total_risk_score > 0
                            /\ risk_level(incidents[i].total_risk_score) = level})
    IN  { [level |-> l, count |-> counted(l)] :
            l \in {r \in {"Low", "Medium", "High", "Critical"} : counted(r) > 0} }

\* GET /api/dashboard-stats
GetEnhancedDashboardStats ==
    /\ pc = "idle"
    /\ response' = [incidents |-> [total |-> Len(incidents),
                                   high_risk |-> high_risk_incidents],
                    safety_concerns |-> [total |-> Len(safety_concerns)],
                    risk_distribution |-> risk_distribution]
    /\ UNCHANGED <<incidents, capa_actions, safety_concerns, notifications>>
    /\ UNCHANGED <<injured_persons, witnesses, chat_history>>
    /\ UNCHANGED engine_vars
    /\ UNCHANGED text_vars
    /\ UNCHANGED scale_vars
    /\ UNCHANGED thread_vars

Init ==
    /\ pc = "idle"
    /\ severity_scores = NoValue
    /\ likelihood = NoValue
    /\ risk_score = NoValue
    /\ priority = NoValue
    /\ EmptyDb
    /\ EmptyText
    /\ ScalesLoaded
    /\ NoRequests

Next ==
    \/ CreateEnhancedIncident
    \/ CreateEnhancedSafetyConcern
    \/ GetEnhancedDashboardStats

Spec == Init /\ [][Next]_vars

\* ----------------------------------------------------------------- claims
\* the value of the weighted formula of the specification, in thousandths:
\* (0.30 people + 0.20 environment + 0.20 cost + 0.15 reputation
\*  + 0.15 legal) * likelihood / 10
ExactThousandths(sev, lik) ==
    ((300 * sev.people + 200 * sev.environment + 200 * sev.cost
      + 150 * sev.reputation + 150 * sev.legal) * lik) \div 10

WeightSumThousandths ==
    weights.people.n + weights.environment.n + weights.cost.n
    + weights.reputation.n + weights.legal.n

Classified == pc \in {"done", "priority_done"}

Scored == pc \in {"scored", "done"}

Rows(table) == {table[i] : i \in 1 .. Len(table)}

HasCapa(incident) ==
    \E c \in Rows(capa_actions) :
        c.source_type = "incident" /\ c.source_id = incident.id

HasNotification(incident) ==
    \E n \in Rows(notifications) :
        n.module = "incidents" /\ n.record_id = incident.id

\* C1: determine_priority(s) is 'low' for s < 25, 'medium' for 25 <= s < 50,
\* 'high' for 50 <= s < 75 and 'critical' for s >= 75, and nothing else.
C1_PriorityBands ==
    Classified =>
        /\ priority \in {"low", "medium", "high", "critical"}
        /\ (risk_score < 250) <=> (priority = "low")
        /\ (250 <= risk_score /\ risk_score < 500) <=> (priority = "medium")
        /\ (500 <= risk_score /\ risk_score < 750) <=> (priority = "high")
        /\ (risk_score >= 750) <=> (priority = "critical")

C1_Witness == pc = "priority_done" /\ risk_score = 750 /\ priority = "critical"

\* C2: create_enhanced_incident inserts an auto-generated CAPA row exactly
\* when the score is >= 50 and requests a critical notification to the
\* safety manager exactly when the score is >= 75.
C2_CapaAndNotificationThresholds ==
    \A i \in Rows(incidents) :
        /\ HasCapa(i) <=> (i.total_risk_score >= 500)
        /\ HasNotification(i) <=> (i.total_risk_score >= 750)

C4_ScoreWithinRange ==
    /\ \A i \in Rows(incidents) :
        0 <= i.total_risk_score /\ i.total_risk_score <= 1000
    /\ \A c \in Rows(safety_concerns) :
        0 <= c.risk_score /\ c.risk_score <= 1000

Clamp(v) == IF v < 0 THEN 0 ELSE IF v > 10 THEN 10 ELSE v

\* C5: every severity and the likelihood are clamped into [0, 10] before
\* the score is computed, in the incident and the safety-concern paths.
C5_InputsClamped ==
    /\ \A i \in Rows(incidents) :
        i.total_risk_score =
            calculate_total_risk_score(
                [c \in CategorySet |-> Clamp(i.severity[c])],
                Clamp(i.likelihood_score))
    /\ \A c \in Rows(safety_concerns) :
        c.risk_score = 10 * (Clamp(c.severity_level) * Clamp(c.likelihood_level))

\* C6: a CAPA is auto-created iff the incident's priority is 'high' or
\* 'critical', and a notification is escalated iff it is 'critical'.
C6_TriggersMatchPriorityBands ==
    \A i \in Rows(incidents) :
        /\ HasCapa(i) <=> (i.priority \in {"high", "critical"})
        /\ HasNotification(i) <=> (i.priority = "critical")

\* C7: for every risk score, escalation implies CAPA creation: an incident
\* whose score takes the escalation branch also got the auto-CAPA.
C7_EscalationImpliesCapa ==
    \A i \in Rows(incidents) :
        escalate_notification(i.total_risk_score) => HasCapa(i)

C7_Witness ==
    \E i \in Rows(incidents) :
        /\ i.total_risk_score = 760
        /\ escalate_notification(i.total_risk_score)
        /\ HasCapa(i)

IsScenarioA ==
    pc = "done" /\ severity_scores = ScenarioA.severity
                /\ likelihood = ScenarioA.likelihood

\* C8 as stated: Scenario A yields aggregate severity 3.6, risk_score 2.88
\* and priority 'low'.
C8_ScenarioA_Unrounded ==
    IsScenarioA =>
        /\ Round1(weighted_severity(severity_scores)) = 36
        /\ 10 * risk_score = 288
        /\ priority = "low"

\* C8 amended: Scenario A yields aggregate severity 3.6, a returned
\* risk_score of 2.9 (2.88 rounded to one decimal place) and priority 'low'.
C8_ScenarioA_Rounded ==
    IsScenarioA =>
        /\ Round1(weighted_severity(severity_scores)) = 36
        /\ risk_score = 29
        /\ priority = "low"

C8_Witness == IsScenarioA /\ risk_score = 29 /\ priority = "low"

\* C9: incident scoring offers the max-severity policy (max of the five
\* severities times likelihood): severities {8,4,2,0,0} with likelihood 8
\* yield risk_score 64 and priority 'high'.
C9_MaxSeverityPolicyScenarioB ==
    \A i \in Rows(incidents) :
        (i.severity = ScenarioA.severity /\ i.likelihood_score = 8) =>
            /\ i.total_risk_score = 10 * (max_severity(i.severity) * i.likelihood_score)
            /\ i.total_risk_score = 640
            /\ i.priority = "high"

\* C10: the returned score is the exact formula value rounded to one
\* decimal place with round-half-away-from-zero.
C10_RoundHalfAwayFromZero ==
    Scored =>
        risk_score =
            (ExactThousandths(severity_scores, likelihood) + 50) \div 100

\* ------------------------------------------------- claims on the text engine
IntentKnown == pc \in {"classified", "confident"}

DeclaredOrder ==
    <<"report_incident", "safety_concern", "sds_query", "risk_assessment",
      "capa_management", "report_generation", "help_general",
      "training_inquiry", "compliance_check">>

IntentLabels == {DeclaredOrder[i] : i \in DOMAIN DeclaredOrder} \cup {"general"}

PatternOf(label) ==
    CHOOSE p \in {intent_patterns[i] : i \in DOMAIN intent_patterns} :
        p.intent = label

\* the number of keywords of an intent occurring in the lower-cased text
MatchCount(text, label) ==
    Cardinality({k \in DOMAIN PatternOf(label).keywords :
                    Contains(lower(text), PatternOf(label).keywords[k])})

\* weight x number of matching keywords, in thousandths
ExactIntentScore(text, label) ==
    PatternOf(label).weight.n * MatchCount(text, label)

\* C11: the returned intent has the maximum of the nine scores weight x
\* (number of its keywords occurring in the lower-cased text), and 'general'
\* is returned if and only if no keyword of any intent occurs in the text.
C11_MaximumWeightedKeywordCount ==
    IntentKnown =>
        /\ intent \in IntentLabels
        /\ (intent = "general") <=>
                (\A i \in DOMAIN DeclaredOrder :
                    MatchCount(message, DeclaredOrder[i]) = 0)
        /\ (intent # "general") =>
                (\A i \in DOMAIN DeclaredOrder :
                    ExactIntentScore(message, DeclaredOrder[i])
                        <= ExactIntentScore(message, intent))

C11_Witness ==
    /\ pc = "classified"
    /\ message = PhraseText(Vocabulary, <<5, 3>>)
    /\ intent = "risk_assessment"
    /\ MatchCount(message, "risk_assessment") = 2
    /\ MatchCount(message, "report_incident") = 1

\* C12: among the intents that share the maximum positive score the one
\* declared first in the intent map is returned; a text matching only the
\* shared keyword 'hazard' yields safety_concern.
C12_TieGoesToFirstDeclared ==
    IntentKnown =>
        /\ \A i \in DOMAIN DeclaredOrder :
            (DeclaredOrder[i] = intent) =>
                (\A j \in 1 .. (i - 1) :
                    ExactIntentScore(message, DeclaredOrder[j])
                        < ExactIntentScore(message, intent))
        /\ (message = Vocabulary[1]) => (intent = "safety_concern")

C12_Witness ==
    /\ pc = "classified"
    /\ message = Vocabulary[1]
    /\ intent = "safety_concern"
    /\ ExactIntentScore(message, "sds_query")
            = ExactIntentScore(message, "safety_concern")
    /\ ExactIntentScore(message, "safety_concern") > 0

\* C13: every call returns a value: the classifier one of the ten intent
\* labels ('general' for the empty string), the scorer a number and the
\* priority function one of the four levels.
C13_CallsAlwaysReturn ==
    /\ IntentKnown =>
        /\ intent \in IntentLabels
        /\ (message = <<>>) => (intent = "general")
    /\ Scored => risk_score \in Int
    /\ Classified => priority \in {"low", "medium", "high", "critical"}

C13_Witness == pc = "classified" /\ message = <<>> /\ intent = "general"

\* C14: for "There was a chemical spill, I need the SDS for acetone" the
\* sds_query score is strictly greater than the score of report_incident and
\* of every other intent, and the returned intent is sds_query.
C14_ScenarioC ==
    (IntentKnown /\ message = ScenarioC) =>
        /\ intent = "sds_query"
        /\ \A i \in DOMAIN DeclaredOrder :
            (DeclaredOrder[i] # "sds_query") =>
                FloatLess(intent_score(lower(message), PatternOf(DeclaredOrder[i])),
                          intent_score(lower(message), PatternOf("sds_query")))

C14_Witness ==
    /\ pc = "classified"
    /\ message = ScenarioC
    /\ intent = "sds_query"
    /\ MatchCount(message, "sds_query") = 3
    /\ MatchCount(message, "report_incident") = 0

\* message.split() words longer than three characters
LongWordCount(text) ==
    LET words == SplitWords(text, 1, <<>>)
    IN  Cardinality({i \in DOMAIN words : Len(words[i]) > 3})

\* C15: the confidence lies in [0.6, 0.95], is 0.6 for a message with no
\* word longer than 3 characters, is the same for every intent argument,
\* and computing it leaves the selected intent as the classifier chose it.
C15_ConfidenceRange ==
    (pc = "confident") =>
        /\ ~FloatLess(confidence, Literal(600))
        /\ ~FloatLess(Literal(950), confidence)
        /\ (LongWordCount(message) = 0) => (confidence = Literal(600))
        /\ \A l \in IntentLabels :
            calculate_intent_confidence(message, l) = confidence
        /\ intent = classify_enhanced_intent(message)

C15_Witness ==
    /\ pc = "confident"
    /\ message = LongMessage
    /\ LongWordCount(message) = 9
    /\ confidence = Literal(950)

\* the messages a confidence is compared with
ProbeMessages ==
    {Vocabulary[i] : i \in DOMAIN Vocabulary} \cup {<<>>, ScenarioC, LongMessage}

\* C16 as stated: a message never receives a lower confidence than a
\* message that is not longer.
C16_MonotonicInLength ==
    (pc = "confident") =>
        \A shorter \in ProbeMessages :
            (Len(shorter) <= Len(message)) =>
                ~FloatLess(confidence,
                           calculate_intent_confidence(shorter, intent))

\* C16 amended: a message never receives a lower confidence than a message
\* with no more whitespace-separated words longer than three characters.
C16_MonotonicInLongWords ==
    (pc = "confident") =>
        \A other \in ProbeMessages :
            (LongWordCount(other) <= LongWordCount(message)) =>
                ~FloatLess(confidence,
                           calculate_intent_confidence(other, intent))

C16_Witness ==
    /\ pc = "confident"
    /\ message = PhraseText(Vocabulary, <<1, 2>>)
    /\ LongWordCount(message) = 2
    /\ FloatLess(calculate_intent_confidence(Vocabulary[2], intent), confidence)

ClaimCategoryOrder ==
    <<"training", "maintenance", "ppe", "housekeeping", "supervision",
      "procedure">>

KeywordsOf(category) ==
    (CHOOSE m \in {action_mapping[i] : i \in DOMAIN action_mapping} :
        m.category = category).keywords

\* the categories, by position in the stated order, with a keyword in the
\* lower-cased description plus root-cause notes
MatchingCategories ==
    {i \in DOMAIN ClaimCategoryOrder :
        AnyKeyword(lower(hazard_description \o <<" ">> \o JoinWords(root_causes)),
                   KeywordsOf(ClaimCategoryOrder[i]))}

\* C17: the suggestion is the template of the first category, in the order
\* training, maintenance, ppe, housekeeping, supervision, procedure, with a
\* keyword in the lower-cased description plus root-cause notes; it is the
\* fallback sentence iff no category matches; "employee was not trained on
\* the lockout procedure" yields the training template.
C17_FirstMatchingCategoryTemplate ==
    (pc = "suggested") =>
        /\ (MatchingCategories = {}) <=> (suggestion = fallback_action)
        /\ \A i \in MatchingCategories :
            (\A j \in MatchingCategories : i <= j) =>
                suggestion = suggested_actions[ClaimCategoryOrder[i]]
        /\ (hazard_description = ScenarioE /\ root_causes = <<>>) =>
                suggestion = suggested_actions.training

C17_Witness ==
    /\ pc = "suggested"
    /\ hazard_description = ScenarioE
    /\ root_causes = <<>>
    /\ MatchingCategories = {1}
    /\ suggestion = suggested_actions.training

\* ---------------------------------------------- claims on the text handlers
\* the step is create_enhanced_incident(data) storing a row
StoresIncidentOf(data) ==
    /\ Len(incidents') = Len(incidents) + 1
    /\ incidents'[Len(incidents')].description = TextOf(data.description)
    /\ incidents'[Len(incidents')].five_whys = TextOf(data.five_whys)
    /\ \A i \in 1 .. 6 : ~IntRaises(IncidentFields(data)[i])
    /\ incidents'[Len(incidents')].likelihood_score = IntOf(data.likelihood, 0)
    /\ incidents'[Len(incidents')].severity.people = IntOf(data.severity_people, 0)
    /\ create_enhanced_incident(data)

\* C18: a non-empty corrective_action of the request is stored unchanged; an
\* absent or empty one is replaced by
\* suggest_corrective_action(description, five_whys).
C18_RecommenderOnlyWhenNoneSupplied ==
    [][\A data \in IncidentRequests :
        StoresIncidentOf(data) =>
            LET stored == incidents'[Len(incidents')].corrective_action
                supplied == data.corrective_action
            IN  IF supplied.kind = "str" /\ supplied.val # <<>>
                THEN stored = supplied.val
                ELSE stored = suggest_corrective_action(TextOf(data.description),
                                                        TextOf(data.five_whys))]_vars

C18_Witness ==
    /\ \E i \in Rows(incidents) :
        /\ i.description = <<"s", "p", "i", "l", "l">>
        /\ i.corrective_action = <<"R", "e", "p", "l", "a", "c", "e", " ", "g", "u", "a", "r", "d">>
        /\ i.corrective_action # suggest_corrective_action(i.description, i.five_whys)
    /\ \E i \in Rows(incidents) :
        /\ i.description = <<"B", "r", "o", "k", "e", "n", " ", "h", "e", "l", "m", "e", "t">>
        /\ i.corrective_action = suggested_actions.maintenance

\* C19: every stored safety concern with a risk score of at least 50 has a
\* CAPA row created for it.
C19_HighRiskConcernGetsCapa ==
    \A c \in Rows(safety_concerns) :
        (c.risk_score >= 500) =>
            \E a \in Rows(capa_actions) :
                a.source_type # "incident" /\ a.source_id = c.id

\* ------------------------------------------- claims on scales and boundaries
TierScores == {0, 2, 4, 6, 8, 10}

ScoresOf(tiers) == {tiers[i] : i \in DOMAIN tiers}

\* C22: in every state the severity scale has exactly the categories people,
\* environment, cost, reputation, legal, each with exactly the tier scores
\* 0, 2, 4, 6, 8, 10, and the likelihood scale has exactly those tier scores.
C22_ScaleTables ==
    /\ DOMAIN severity_scale = {"people", "environment", "cost", "reputation", "legal"}
    /\ \A c \in DOMAIN severity_scale :
        ScoresOf(severity_scale[c]) = TierScores /\ Len(severity_scale[c]) = 6
    /\ ScoresOf(likelihood_scale) = TierScores /\ Len(likelihood_scale) = 6

C22_Witness ==
    /\ Len(incidents) > 0
    /\ Len(safety_concerns) > 0
    /\ ScoresOf(severity_scale["legal"]) = TierScores
    /\ ScoresOf(likelihood_scale) = TierScores

PriorityRank(p) ==
    IF p = "low" THEN 1 ELSE IF p = "medium" THEN 2 ELSE IF p = "high" THEN 3 ELSE 4

\* C23: determine_priority is monotonically non-decreasing: a score that is
\* not lower never gets a lower priority, in the order low < medium < high
\* < critical.
C23_PriorityMonotonic ==
    (pc = "priority_done") =>
        \A b \in risk_score .. MaxScore :
            PriorityRank(priority) <= PriorityRank(determine_priority(b))

C23_Witness ==
    /\ pc = "priority_done"
    /\ risk_score = 499
    /\ priority = "medium"
    /\ determine_priority(500) = "high"

AllZero(i) ==
    /\ \A c \in CategorySet : i.severity[c] = 0
    /\ i.likelihood_score = 0

\* C24: an incident with all five severities 0 and likelihood 0 has risk
\* score 0.0, the value of the weighted and of the maximum-severity formula,
\* priority 'low', no auto-CAPA and no escalation.
C24_ZeroBoundary ==
    \A i \in Rows(incidents) :
        AllZero(i) =>
            /\ i.total_risk_score = 0
            /\ 100 * i.total_risk_score = ExactThousandths(i.severity, i.likelihood_score)
            /\ 10 * i.total_risk_score = max_severity(i.severity) * i.likelihood_score
            /\ i.priority = "low"
            /\ ~HasCapa(i) /\ ~auto_create_capa(i.total_risk_score)
            /\ ~HasNotification(i) /\ ~escalate_notification(i.total_risk_score)

C24_Witness ==
    \E i \in Rows(incidents) :
        AllZero(i) /\ i.total_risk_score = 0 /\ i.priority = "low" /\ ~HasCapa(i)

InScale(i) ==
    /\ \A c \in CategorySet : i.severity[c] \in 0 .. 10
    /\ i.likelihood_score \in 0 .. 10

\* C25: an incident whose five severities and likelihood are integers in
\* [0, 10] has a score of at most 10.0 and priority 'low', and neither the
\* auto-CAPA branch nor the critical-notification branch is taken for it.
C25_InScaleIncidentsStayLow ==
    \A i \in Rows(incidents) :
        InScale(i) =>
            /\ i.total_risk_score <= 100
            /\ i.priority = "low"
            /\ ~HasCapa(i) /\ ~auto_create_capa(i.total_risk_score)
            /\ ~HasNotification(i) /\ ~escalate_notification(i.total_risk_score)

C25_Witness ==
    \E i \in Rows(incidents) :
        /\ \A c \in CategorySet : i.severity[c] = 10
        /\ i.likelihood_score = 10
        /\ i.total_risk_score = 100
        /\ i.priority = "low"

\* the step is create_enhanced_safety_concern(data) storing a row
StoresConcernOf(data) ==
    /\ Len(safety_concerns') = Len(safety_concerns) + 1
    /\ safety_concerns'[Len(safety_concerns')].description = data.description
    /\ create_enhanced_safety_concern(data)

\* 8 with a high-risk keyword, otherwise 5 with a medium-risk keyword,
\* otherwise 3
StatedSeverity(text) ==
    IF AnyKeyword(lower(text), high_risk_keywords) THEN 8
    ELSE IF AnyKeyword(lower(text), medium_risk_keywords) THEN 5
    ELSE 3

\* C29: a safety concern submitted without severity_level and
\* likelihood_level is stored with risk_score = assessed severity * 5, the
\* assessed severity being 8, 5 or 3 by the keywords of the description; its
\* risk_score is 15, 25 or 40 and its priority is not 'high' or 'critical'.
C29_DefaultConcernScore ==
    [][\A data \in ConcernRequests :
        (/\ data.severity_level.kind = "missing"
         /\ data.likelihood_level.kind = "missing"
         /\ StoresConcernOf(data)) =>
            LET row == safety_concerns'[Len(safety_concerns')]
            IN  /\ row.risk_score = 10 * (StatedSeverity(data.description) * 5)
                /\ row.risk_score \in {150, 250, 400}
                /\ row.priority \notin {"high", "critical"}]_vars

C29_Witness ==
    \E c \in Rows(safety_concerns) :
        /\ c.description = <<"S", "e", "r", "i", "o", "u", "s", " ", "i", "n", "j", "u", "r", "y">>
        /\ c.severity_level = 8
        /\ c.likelihood_level = 5
        /\ c.risk_score = 400
        /\ c.priority = "medium"

\* ------------------------------------------------ claims on the handlers
\* C26: a step of create_enhanced_incident answers success: true exactly
\* when it stores the incident row, and a step answering success: false
\* leaves incidents, injured_persons, witnesses and capa_actions unchanged.
C26_SuccessIffCommitted ==
    [][("success" \in DOMAIN response') =>
        /\ (incidents' # incidents) => response'.success
        /\ (~response'.success) =>
            UNCHANGED <<incidents, injured_persons, witnesses, capa_actions>>]_vars

IsDashboard(r) == "risk_distribution" \in DOMAIN r

\* the count the dashboard reports for a level, 0 when the level has no row
ReportedCount(level) ==
    IF \E g \in response.risk_distribution : g.level = level
    THEN (CHOOSE g \in response.risk_distribution : g.level = level).count
    ELSE 0

LevelLabel(p) ==
    IF p = "low" THEN "Low" ELSE IF p = "medium" THEN "Medium"
    ELSE IF p = "high" THEN "High" ELSE "Critical"

\* C27: the dashboard counts, for each level, the stored incidents with a
\* positive score to which determine_priority gives that level, and its
\* high_risk count is the number of incidents determine_priority gives
\* 'high' or 'critical'.
C27_DashboardBandsMatchPriority ==
    IsDashboard(response) =>
        /\ \A p \in {"low", "medium", "high", "critical"} :
            ReportedCount(LevelLabel(p)) =
                Cardinality({i \in DOMAIN incidents :
                    /\ incidents[i].total_risk_score > 0
                    /\ determine_priority(incidents[i].total_risk_score) = p})
        /\ response.incidents.high_risk =
                Cardinality({i \in DOMAIN incidents :
                    determine_priority(incidents[i].total_risk_score)
                        \in {"high", "critical"}})

C27_Witness ==
    /\ IsDashboard(response)
    /\ \E i \in Rows(incidents) : i.total_risk_score = 500
    /\ \E i \in Rows(incidents) : i.total_risk_score = 0
    /\ ReportedCount("High") = 1
    /\ response.incidents.high_risk = 1
    /\ response.incidents.total = 2

CapaRowsOf(incident) ==
    {k \in DOMAIN capa_actions :
        /\ capa_actions[k].source_type = "incident"
        /\ capa_actions[k].source_id = incident.id}

C28_IncidentAndCapaCommittedTogether ==
    /\ \A a \in Rows(capa_actions) :
        (a.source_type = "incident") =>
            \E i \in Rows(incidents) :
                i.id = a.source_id /\ i.total_risk_score >= 500
    /\ \A i \in Rows(incidents) :
        (i.total_risk_score >= 500) => (Cardinality(CapaRowsOf(i)) = 1)

C28_Witness ==
    /\ Len(incidents) = 2
    /\ \A i \in Rows(incidents) :
        i.total_risk_score >= 500 /\ Cardinality(CapaRowsOf(i)) = 1
    /\ incidents[1].id = 2
    /\ \E r \in RequestIds : requests[r].pc = "committed"

====
